---------------------------- MODULE Spec2Model ----------------------------
(***************************************************************************)
(* Model of cli/src/stream.rs of ribzip2: the parallel stream encoder      *)
(* write_stream_data (a control thread that scatters chunks of the input   *)
(* to worker threads over channels and gathers the results in index order) *)
(* and the sequential stream decoder write_stream (read_file_header,       *)
(* what_next, decode_block).                                               *)
(*                                                                         *)
(* The byte stream is modelled as a sequence of bytes (0..255).  The block *)
(* transform, the block decoder, the header/footer patterns and the bit    *)
(* reader/writer live outside stream.rs; they are modelled from the        *)
(* specification and are marked so in the model map.                       *)
(***************************************************************************)
EXTENDS Integers, Sequences, FiniteSets, TLC

(***************************************************************************)
(* Bounds of the model.                                                    *)
(***************************************************************************)
\* Longest input given to the encoder.
MaxLen == 6
\* Worker counts 1..MaxThreads are explored (and those of TestedWorkerCounts).
MaxThreads == 3
\* stream.rs:66 sets BLOCK_SIZE to 720_000; the model scales the chunk size
\* down so that inputs of several chunks stay small.
BLOCK_SIZE == 2

\* The round counter stops counting here.  A call that terminates starts at
\* most one round per input byte and one more, so only the rounds of a call
\* that runs forever go uncounted.
MaxRound == MaxLen + 1
\* The read errors that are counted.
MaxReadErrors == 2

\* The byte values inputs are drawn from.
InputBytes == {0, 255}
\* The worker counts the round-trip property names.
TestedWorkerCounts == {1, 2, 4, 8}

(***************************************************************************)
(* 32-bit arithmetic.  A u32 is the sequence of its 32 bits, most          *)
(* significant first, so that shifts lose exactly the bits a u32 loses.    *)
(***************************************************************************)
\* The width of total_crc and of a block checksum (u32).
Width == 32

Zero32 == [j \in 1..Width |-> 0]

\* a ^ b
BitXor(a, b) == SubSeq([j \in 1..Len(a) |-> (a[j] + b[j]) % 2], 1, Len(a))
\* a | b
BitOr(a, b) ==
    SubSeq([j \in 1..Len(a) |-> IF a[j] = 1 \/ b[j] = 1 THEN 1 ELSE 0], 1, Len(a))
\* x << n on a u32: the n top bits are dropped, zeros enter at the bottom.
Shl32(x, n) == SubSeq(x, n + 1, Width) \o [j \in 1..n |-> 0]
\* x >> n on a u32: the n low bits are dropped, zeros enter at the top.
Shr32(x, n) == [j \in 1..n |-> 0] \o SubSeq(x, 1, Width - n)

\* A byte (0..255) as 8 bits, most significant first, and back.
ByteBits(b) == [j \in 1..8 |-> (b \div (2 ^ (8 - j))) % 2]
BitsByte(s) ==
    (s[1] * 128) + (s[2] * 64) + (s[3] * 32) + (s[4] * 16)
      + (s[5] * 8) + (s[6] * 4) + (s[7] * 2) + s[8]

Min(a, b) == IF a < b THEN a ELSE b

\* The sequences over S of length at most n.
SeqsUpTo(S, n) == UNION {[1..k -> S] : k \in 0..n}

RECURSIVE Reverse(_)
Reverse(s) == IF s = <<>> THEN <<>> ELSE Append(Reverse(Tail(s)), Head(s))

\* A u32 as 4 bytes, most significant first, and back.
U32Bytes(x) ==
    << BitsByte(SubSeq(x, 1, 8)), BitsByte(SubSeq(x, 9, 16)),
       BitsByte(SubSeq(x, 17, 24)), BitsByte(SubSeq(x, 25, 32)) >>
BytesU32(s) == ByteBits(s[1]) \o ByteBits(s[2]) \o ByteBits(s[3]) \o ByteBits(s[4])

(***************************************************************************)
(* External collaborators of stream.rs, modelled from the specification.   *)
(***************************************************************************)
\* The 3-byte signature "BZh".
Signature == <<66, 90, 104>>
\* file_header(): the signature and the version byte '9'.
file_header == Signature \o <<57>>

BlockMagic == <<49, 65, 89, 38, 83, 89>>
FooterMagic == <<23, 114, 69, 56, 80, 144>>

\* stream_footer(crc): the stream-end magic and the combined checksum.
stream_footer(crc) == FooterMagic \o U32Bytes(crc)

\* The block checksum: the bzip2 CRC-32 (MSB first, polynomial 0x04C11DB7).
CrcPoly == BytesU32(<<4, 193, 29, 183>>)
\* (The one-element sets make TLC compute the register once per step.)
CrcShift(c) ==
    CHOOSE r \in {IF v[1] = 1 THEN BitXor(Shl32(v, 1), CrcPoly) ELSE Shl32(v, 1)
                    : v \in {c}} : TRUE
CrcByte(c, b) ==
    CHOOSE r \in {CrcShift(CrcShift(CrcShift(CrcShift(CrcShift(CrcShift(CrcShift(
                    CrcShift(BitXor(v, ByteBits(b) \o [j \in 1..24 |-> 0])))))))))
                    : v \in {c}} : TRUE
RECURSIVE CrcFold(_, _)
CrcFold(c, s) == IF s = <<>> THEN c ELSE CrcFold(CrcByte(c, Head(s)), Tail(s))
BlockCrc(s) == BitXor(CrcFold([k \in 1..Width |-> 1], s), [k \in 1..Width |-> 1])

\* The chunks a worker can be sent, and their checksums computed once.
Works == SeqsUpTo(InputBytes, BLOCK_SIZE + 1)
CrcPairs == {<<s, BlockCrc(s)>> : s \in Works}
CrcTable(s) ==
    IF \E p \in CrcPairs : p[1] = s
      THEN (CHOOSE p \in CrcPairs : p[1] = s)[2]
      ELSE BlockCrc(s)

\* The block transform: the block-start magic, the block checksum, the length
\* and the permuted bytes (self-delimiting, not the identity).
BlockBits(work) ==
    BlockMagic \o U32Bytes(CrcTable(work)) \o <<Len(work)>> \o Reverse(work)

\* generate_block_data(&work) -> (Vec<Bit>, u32).
generate_block_data(work) == [bits |-> BlockBits(work), crc |-> CrcTable(work)]

(***************************************************************************)
(* State.                                                                  *)
(***************************************************************************)
VARIABLES
    \* write_stream_data: the control thread
    orig,          \* the bytes of `read` when the call starts
    read,          \* the bytes of `read` not consumed yet
    num_threads,   \* the worker count of the call
    pc,            \* the control thread's position in write_stream_data
    idx,           \* index of the worker the running for loop is at (1-based)
    round,         \* iterations of the outer loop started (up to MaxRound)
    finalize,      \* the local `finalize`
    total_crc,     \* the local `total_crc`
    sink,          \* the bytes written through bit_writer
    events,        \* the calls made on bit_writer, in order; crc is the checksum
                   \* the call was given (of the block, or for the footer)
    sent,          \* the send_work calls made, in order
    \* WorkerThread, one per worker
    pending,       \* the field `pending`
    work_chan,     \* messages in the channel send_work -> receive_work
    busy,          \* the work the thread holds between recv and send
    result_chan,   \* messages in the channel send_result -> receive_result
    \* a second call of write_stream_data on the same input with one worker
    run,           \* 1: the first call, 2: the call with one worker
    first,         \* what the first call wrote
    \* the surroundings of a call
    rkind,         \* the reader: "good", "transient" (some reads fail) or
                   \* "broken" (once a read has failed, every read fails)
    nerr,          \* the reads that have failed (counted up to MaxReadErrors)
    wstate,        \* per worker thread: "running", "crashed" or "exited"
    \* write_stream: the decoder
    dpc,           \* the decoder's position in write_stream
    din,           \* the bytes behind bit_reader
    dpos,          \* how many of them have been read
    dout,          \* the bytes written to `writer`
    marker,        \* what the last what_next call returned
    dlog           \* the calls write_stream made, in order

ctl == <<orig, read, num_threads, pc, idx, round, finalize, total_crc, sink, events, sent>>
wrk == <<pending, work_chan, busy, result_chan>>
har == <<run, first>>
env == <<rkind, nerr, wstate>>
dec == <<dpc, din, dpos, dout, marker, dlog>>
vars == <<ctl, wrk, har, dec, env>>

Workers == 1..num_threads

(***************************************************************************)
(* WorkerThread (stream.rs:22-60).                                         *)
(***************************************************************************)
\* The thread's loop, `while let Ok(work) = receive_work.recv()`: it takes the
\* next work from its channel.
WorkerRecv(w) ==
    /\ wstate[w] = "running"
    /\ busy[w] = <<>>
    /\ work_chan[w] # <<>>
    /\ busy' = [busy EXCEPT ![w] = <<Head(work_chan[w])>>]
    /\ work_chan' = [work_chan EXCEPT ![w] = Tail(@)]
    /\ UNCHANGED <<pending, result_chan, ctl, har, env, dec>>

\* `send_result.send(generate_block_data(&work))`.
WorkerSend(w) ==
    /\ wstate[w] = "running"
    /\ pc # "panic"
    /\ busy[w] # <<>>
    /\ result_chan' = [result_chan EXCEPT ![w] = Append(@, generate_block_data(busy[w][1]))]
    /\ busy' = [busy EXCEPT ![w] = <<>>]
    /\ UNCHANGED <<pending, work_chan, ctl, har, env, dec>>

\* send_work(&mut self, work_to_send): sets pending, then sends on the channel
\* (unbounded, so the send never blocks).
\* send_work without `self.pending = true`.
send_work_leaves_pending(w, work_to_send) ==
    /\ pending' = pending
    /\ work_chan' = [work_chan EXCEPT ![w] = Append(@, work_to_send)]
    /\ sent' = Append(sent, [worker |-> w, work |-> work_to_send, round |-> round])

send_work(w, work_to_send) ==
    /\ pending' = [pending EXCEPT ![w] = TRUE]
    /\ work_chan' = [work_chan EXCEPT ![w] = Append(@, work_to_send)]
    /\ sent' = Append(sent, [worker |-> w, work |-> work_to_send, round |-> round])

\* CombineCrc without the bit that wraps from bit 31 to bit 0.
\* The thread of worker w panics with a block in hand: in
\* generate_block_data, or in `send_result.send(..).unwrap()` once the
\* calling thread has panicked and dropped the receiver.  The block is lost
\* and the thread's channel ends are dropped.
WorkerCrash(w) ==
    /\ wstate[w] = "running"
    /\ busy[w] # <<>>
    /\ wstate' = [wstate EXCEPT ![w] = "crashed"]
    /\ busy' = [busy EXCEPT ![w] = <<>>]
    /\ UNCHANGED <<pending, work_chan, result_chan, ctl, har, rkind, nerr, dec>>

\* A thread loop that ends as soon as it finds its work channel empty.
WorkerExitsWhenIdle(w) ==
    /\ wstate[w] = "running"
    /\ busy[w] = <<>>
    /\ work_chan[w] = <<>>
    /\ wstate' = [wstate EXCEPT ![w] = "exited"]
    /\ UNCHANGED <<wrk, ctl, har, rkind, nerr, dec>>

\* `while let Ok(work) = receive_work.recv()` ends: recv() returns Err once
\* the work channel is empty and its sender is dropped, which happens when
\* write_stream_data returns (or unwinds) and drops worker_threads.
WorkerExit(w) ==
    /\ wstate[w] = "running"
    /\ busy[w] = <<>>
    /\ work_chan[w] = <<>>
    /\ pc \in {"done", "panic"}
    /\ wstate' = [wstate EXCEPT ![w] = "exited"]
    /\ UNCHANGED <<wrk, ctl, har, rkind, nerr, dec>>

\* CombineCrc without the bit that wraps from bit 31 to bit 0.
CombineCrcNoWrap(total, crc) == BitXor(crc, Shl32(total, 1))

\* `*total_crc = result.1 ^ ((*total_crc << 1) | (*total_crc >> 31))`.
CombineCrc(total, crc) == BitXor(crc, BitOr(Shl32(total, 1), Shr32(total, 31)))

\* flush_work_buffer leaving pending set.
flush_work_buffer_keeps_pending(w) ==
    /\ result_chan[w] # <<>>
    /\ LET result == Head(result_chan[w]) IN
         /\ sink' = sink \o result.bits
         /\ events' = Append(events, [kind |-> "block", bits |-> result.bits, crc |-> result.crc])
         /\ total_crc' = CombineCrc(total_crc, result.crc)
    /\ result_chan' = [result_chan EXCEPT ![w] = Tail(@)]
    /\ UNCHANGED pending

\* flush_work_buffer(&mut self, bit_writer, total_crc): blocks in recv() until
\* the worker's result is there, writes its bits, folds its checksum and clears
\* pending.
flush_work_buffer(w) ==
    /\ result_chan[w] # <<>>
    /\ LET result == Head(result_chan[w]) IN
         /\ sink' = sink \o result.bits
         /\ events' = Append(events, [kind |-> "block", bits |-> result.bits, crc |-> result.crc])
         /\ total_crc' = CombineCrc(total_crc, result.crc)
    /\ result_chan' = [result_chan EXCEPT ![w] = Tail(@)]
    /\ pending' = [pending EXCEPT ![w] = FALSE]

(***************************************************************************)
(* write_stream_data (stream.rs:62-102).                                   *)
(***************************************************************************)
\* The reader lets the next read succeed: a broken reader that has failed
\* fails again.
ReadSucceeds == ~(rkind = "broken" /\ nerr > 0)

\* A read that takes one byte more than BLOCK_SIZE.
ReadChunkOneMore(r) == SubSeq(r, 1, Min(BLOCK_SIZE + 1, Len(r)))

\* `read.by_ref().take(BLOCK_SIZE as u64).read_to_end(&mut buf)` on a reader
\* that does not fail: the next BLOCK_SIZE bytes, or all that are left.
ReadChunk(r) == SubSeq(r, 1, Min(BLOCK_SIZE, Len(r)))

\* The for loops visiting the workers from the last to the first.
ScatterWorkerReversed(i) == num_threads + 1 - i
\* The first for loop, starting at the second worker.
ScatterWorkerShifted(i) == (i % num_threads) + 1
GatherWorkerReversed(i) == num_threads + 1 - i

\* The worker the for loops visit at their i-th step (`iter_mut()` order).
ScatterWorker(i) == i
GatherWorker(i) == i

\* `bit_writer.write_bits(&file_header())`.
WriteHeader ==
    /\ pc = "header"
    /\ sink' = sink \o file_header
    /\ events' = Append(events, [kind |-> "header", bits |-> file_header, crc |-> Zero32])
    /\ pc' = "loop"
    /\ UNCHANGED <<orig, read, num_threads, idx, round, finalize, total_crc, sent, wrk, har, env, dec>>

\* The head of `loop`: `if finalize { break; }`, else the scatter loop starts.
LoopTop ==
    /\ pc = "loop"
    /\ IF finalize
         THEN pc' = "footer" /\ UNCHANGED <<idx, round>>
         ELSE /\ pc' = "scatter"
              /\ idx' = 1
              /\ round' = IF round < MaxRound THEN round + 1 ELSE round
    /\ UNCHANGED <<orig, read, num_threads, finalize, total_crc, sink, events, sent, wrk, har, env, dec>>

\* Scatter whose zero-byte read leaves the outer loop at once, without the
\* gather of the round.
ScatterBreaksOuterLoop ==
    /\ pc = "scatter"
    /\ idx <= num_threads
    /\ LET buf == ReadChunk(read) IN
         IF Len(buf) = 0
           THEN /\ finalize' = TRUE
                /\ pc' = "footer"
                /\ idx' = 1
                /\ UNCHANGED <<read, sent, pending, work_chan>>
           ELSE /\ read' = SubSeq(read, Len(buf) + 1, Len(read))
                /\ send_work(ScatterWorker(idx), buf)
                /\ idx' = idx + 1
                /\ UNCHANGED <<finalize, pc>>
    /\ UNCHANGED <<orig, num_threads, round, total_crc, sink, events, busy, result_chan, har, env, dec>>

\* Scatter whose zero-byte read ends the round without setting finalize.
ScatterForgetsFinalize ==
    /\ pc = "scatter"
    /\ idx <= num_threads
    /\ LET buf == ReadChunk(read) IN
         IF Len(buf) = 0
           THEN /\ pc' = "gather"
                /\ idx' = 1
                /\ UNCHANGED <<finalize, read, sent, pending, work_chan>>
           ELSE /\ read' = SubSeq(read, Len(buf) + 1, Len(read))
                /\ send_work(ScatterWorker(idx), buf)
                /\ idx' = idx + 1
                /\ UNCHANGED <<finalize, pc>>
    /\ UNCHANGED <<orig, num_threads, round, total_crc, sink, events, busy, result_chan, har, env, dec>>

\* One iteration of the first for loop: read a chunk; a zero-byte read sets
\* finalize and breaks, any other chunk is sent to the worker.
Scatter ==
    /\ pc = "scatter"
    /\ idx <= num_threads
    /\ ReadSucceeds
    /\ LET buf == ReadChunk(read) IN
         IF Len(buf) = 0
           THEN /\ finalize' = TRUE
                /\ pc' = "gather"
                /\ idx' = 1
                /\ UNCHANGED <<read, sent, pending, work_chan>>
           ELSE /\ read' = SubSeq(read, Len(buf) + 1, Len(read))
                /\ send_work(ScatterWorker(idx), buf)
                /\ idx' = idx + 1
                /\ UNCHANGED <<finalize, pc>>
    /\ UNCHANGED <<orig, num_threads, round, total_crc, sink, events, busy, result_chan, har, env, dec>>

\* A read error handled like the zero-byte read: finalize is set.
ScatterReadErrorFinishes ==
    /\ pc = "scatter"
    /\ idx <= num_threads
    /\ rkind # "good"
    /\ rkind = "transient" => nerr < MaxReadErrors
    /\ \E n \in 0..Len(ReadChunk(read)) : read' = SubSeq(read, n + 1, Len(read))
    /\ nerr' = Min(nerr + 1, MaxReadErrors)
    /\ finalize' = TRUE
    /\ pc' = "gather"
    /\ idx' = 1
    /\ UNCHANGED <<orig, num_threads, round, total_crc, sink, events, sent, wrk, har, rkind, wstate, dec>>

\* One iteration of the first for loop whose read_to_end returns Err: the
\* `else { break; }` leaves the for loop; buf, with the bytes read before the
\* error, is dropped, finalize is not touched and nothing is sent.
ScatterReadError ==
    /\ pc = "scatter"
    /\ idx <= num_threads
    /\ rkind # "good"
    /\ rkind = "transient" => nerr < MaxReadErrors
    /\ \E n \in 0..Len(ReadChunk(read)) : read' = SubSeq(read, n + 1, Len(read))
    /\ nerr' = Min(nerr + 1, MaxReadErrors)
    /\ pc' = "gather"
    /\ idx' = 1
    /\ UNCHANGED <<orig, num_threads, round, finalize, total_crc, sink, events, sent, wrk, har, rkind, wstate, dec>>

\* A first for loop that sets finalize when it ends without a pending
\* worker.
ScatterEndFinishesIdleRound ==
    /\ pc = "scatter"
    /\ idx > num_threads
    /\ pc' = "gather"
    /\ idx' = 1
    /\ finalize' = (finalize \/ \A w \in Workers : ~pending[w])
    /\ UNCHANGED <<orig, read, num_threads, round, total_crc, sink, events, sent, wrk, har, env, dec>>

\* The first for loop has visited every worker.
ScatterEnd ==
    /\ pc = "scatter"
    /\ idx > num_threads
    /\ pc' = "gather"
    /\ idx' = 1
    /\ UNCHANGED <<orig, read, num_threads, round, finalize, total_crc, sink, events, sent, wrk, har, env, dec>>

\* A second for loop that does not wait: a pending worker whose result has
\* not arrived is passed over and stays pending.
GatherSkipsUnready ==
    /\ pc = "gather"
    /\ idx <= num_threads
    /\ IF pending[GatherWorker(idx)] /\ result_chan[GatherWorker(idx)] # <<>>
         THEN /\ flush_work_buffer(GatherWorker(idx))
         ELSE /\ UNCHANGED <<sink, events, total_crc, result_chan, pending>>
    /\ idx' = idx + 1
    /\ UNCHANGED <<orig, read, num_threads, pc, round, finalize, sent, work_chan, busy, har, env, dec>>

\* One iteration of the second for loop: a pending worker is flushed.
Gather ==
    /\ pc = "gather"
    /\ idx <= num_threads
    /\ IF pending[GatherWorker(idx)]
         THEN /\ flush_work_buffer(GatherWorker(idx))
         ELSE /\ UNCHANGED <<sink, events, total_crc, result_chan, pending>>
    /\ idx' = idx + 1
    /\ UNCHANGED <<orig, read, num_threads, pc, round, finalize, sent, work_chan, busy, har, env, dec>>

\* A second for loop that takes the Err of recv() for "nothing to write".
GatherRecvFailsSkips ==
    /\ pc = "gather"
    /\ idx <= num_threads
    /\ pending[GatherWorker(idx)]
    /\ result_chan[GatherWorker(idx)] = <<>>
    /\ wstate[GatherWorker(idx)] = "crashed"
    /\ pending' = [pending EXCEPT ![GatherWorker(idx)] = FALSE]
    /\ idx' = idx + 1
    /\ UNCHANGED <<orig, read, num_threads, pc, round, finalize, total_crc, sink, events, sent,
                   work_chan, busy, result_chan, har, env, dec>>

\* flush_work_buffer on a worker whose thread is gone and has left nothing
\* in its result channel: recv() returns Err and unwrap() panics.
GatherRecvFails ==
    /\ pc = "gather"
    /\ idx <= num_threads
    /\ pending[GatherWorker(idx)]
    /\ result_chan[GatherWorker(idx)] = <<>>
    /\ wstate[GatherWorker(idx)] = "crashed"
    /\ pc' = "panic"
    /\ UNCHANGED <<orig, read, num_threads, idx, round, finalize, total_crc, sink, events, sent,
                   wrk, har, env, dec>>

\* The second for loop has visited every worker: back to the head of `loop`.
GatherEnd ==
    /\ pc = "gather"
    /\ idx > num_threads
    /\ pc' = "loop"
    /\ UNCHANGED <<orig, read, num_threads, idx, round, finalize, total_crc, sink, events, sent, wrk, har, env, dec>>

\* `bit_writer.write_bits(&stream_footer(total_crc))`.
WriteFooter ==
    /\ pc = "footer"
    /\ sink' = sink \o stream_footer(total_crc)
    /\ events' = Append(events, [kind |-> "footer", bits |-> stream_footer(total_crc), crc |-> total_crc])
    /\ pc' = "finalize"
    /\ UNCHANGED <<orig, read, num_threads, idx, round, finalize, total_crc, sent, wrk, har, env, dec>>

\* `bit_writer.finalize()`, after which the function returns.
Finalize ==
    /\ pc = "finalize"
    /\ events' = Append(events, [kind |-> "finalize", bits |-> <<>>, crc |-> Zero32])
    /\ pc' = "done"
    /\ UNCHANGED <<orig, read, num_threads, idx, round, finalize, total_crc, sink, sent, wrk, har, env, dec>>

Control ==
    \/ WriteHeader
    \/ LoopTop
    \/ Scatter
    \/ ScatterEnd
    \/ Gather
    \/ GatherEnd
    \/ WriteFooter
    \/ Finalize

(***************************************************************************)
(* The decoder: read_file_header, what_next, write_stream                  *)
(* (stream.rs:104-147).                                                    *)
(***************************************************************************)
\* bit_reader.read_bytes(n): the next n bytes, or an error when fewer are left.
CanRead(n) == dpos + n <= Len(din)
Peek(n) == SubSeq(din, dpos + 1, dpos + n)

\* read_file_header accepting version '9' only.
read_file_header_v9(res) == res = <<66, 90, 104, 57>>

\* The match of read_file_header on the 4 bytes read: [b'B', b'Z', b'h', _].
read_file_header(res) == res[1] = 66 /\ res[2] = 90 /\ res[3] = 104

\* what_next with the results of its two arms exchanged.
what_next_swapped(res) ==
    IF res = <<49, 65, 89, 38, 83, 89>> THEN "StreamFooter"
    ELSE IF res = <<23, 114, 69, 56, 80, 144>> THEN "BlockHeader"
    ELSE "Err"

\* what_next comparing the first five bytes only.
what_next_five(res) ==
    IF SubSeq(res, 1, 5) = <<49, 65, 89, 38, 83>> THEN "BlockHeader"
    ELSE IF SubSeq(res, 1, 5) = <<23, 114, 69, 56, 80>> THEN "StreamFooter"
    ELSE "Err"

\* The match of what_next on the 6 bytes read.
what_next(res) ==
    IF res = <<49, 65, 89, 38, 83, 89>> THEN "BlockHeader"
    ELSE IF res = <<23, 114, 69, 56, 80, 144>> THEN "StreamFooter"
    ELSE "Err"

\* decode_block(&mut bit_reader, &mut writer) on the bytes from position p on:
\* the inverse of the block transform after the block-start magic.  It checks
\* the block checksum and consumes exactly the block's bytes.
decode_block(p) ==
    LET bad == [ok |-> FALSE, out |-> <<>>, used |-> 0] IN
    IF p + 5 > Len(din) THEN bad
    ELSE LET n == din[p + 5] IN
         IF p + 5 + n > Len(din) THEN bad
         ELSE LET work == Reverse(SubSeq(din, p + 6, p + 5 + n))
                  crc == BytesU32(SubSeq(din, p + 1, p + 4)) IN
              IF crc = CrcTable(work)
                THEN [ok |-> TRUE, out |-> work, used |-> 5 + n]
                ELSE bad

\* `read_file_header(&mut bit_reader)?`
ReadFileHeader ==
    /\ dpc = "header"
    /\ dlog' = Append(dlog, "read_file_header")
    /\ IF CanRead(4)
         THEN /\ dpos' = dpos + 4
              /\ dpc' = IF read_file_header(Peek(4)) THEN "marker" ELSE "err"
         ELSE /\ dpos' = Len(din)
              /\ dpc' = "err"
    /\ UNCHANGED <<din, dout, marker, ctl, wrk, har, env>>

\* A loop that, after the stream-end marker, goes on to read the four bytes
\* of the footer's checksum.
WhatNextReadsFooterCrc ==
    /\ dpc = "marker"
    /\ dlog' = Append(dlog, "what_next")
    /\ IF CanRead(6)
         THEN /\ marker' = what_next(Peek(6))
              /\ dpos' = IF marker' = "StreamFooter"
                            THEN Min(dpos + 10, Len(din))
                            ELSE dpos + 6
              /\ dpc' = CASE marker' = "BlockHeader" -> "block"
                          [] marker' = "StreamFooter" ->
                               IF dpos + 10 <= Len(din) THEN "ok" ELSE "err"
                          [] OTHER -> "err"
         ELSE /\ dpos' = Len(din)
              /\ marker' = "Err"
              /\ dpc' = "err"
    /\ UNCHANGED <<din, dout, ctl, wrk, har, env>>

\* A loop that takes the end of the input for the end of the stream.
WhatNextEndOfInputIsEnd ==
    /\ dpc = "marker"
    /\ dlog' = Append(dlog, "what_next")
    /\ IF CanRead(6)
         THEN /\ dpos' = dpos + 6
              /\ marker' = what_next(Peek(6))
         ELSE /\ dpos' = Len(din)
              /\ marker' = "StreamFooter"
    /\ dpc' = CASE marker' = "BlockHeader" -> "block"
                [] marker' = "StreamFooter" -> "ok"
                [] OTHER -> "err"
    /\ UNCHANGED <<din, dout, ctl, wrk, har, env>>

\* `match what_next(&mut bit_reader)?`: StreamFooter breaks the loop and
\* write_stream returns Ok(()), BlockHeader goes on to decode_block.
WhatNext ==
    /\ dpc = "marker"
    /\ dlog' = Append(dlog, "what_next")
    /\ IF CanRead(6)
         THEN /\ dpos' = dpos + 6
              /\ marker' = what_next(Peek(6))
         ELSE /\ dpos' = Len(din)
              /\ marker' = "Err"
    /\ dpc' = CASE marker' = "BlockHeader" -> "block"
                [] marker' = "StreamFooter" -> "ok"
                [] OTHER -> "err"
    /\ UNCHANGED <<din, dout, ctl, wrk, har, env>>

\* A loop that drops the error of decode_block and looks for the next marker.
DecodeBlockSkipsCorrupt ==
    /\ dpc = "block"
    /\ dlog' = Append(dlog, "decode_block")
    /\ LET r == decode_block(dpos) IN
         IF r.ok
           THEN /\ dout' = dout \o r.out
                /\ dpos' = dpos + r.used
           ELSE UNCHANGED <<dout, dpos>>
    /\ dpc' = "marker"
    /\ UNCHANGED <<din, marker, ctl, wrk, har, env>>

\* `decode_block(&mut bit_reader, &mut writer)?`
DecodeBlock ==
    /\ dpc = "block"
    /\ dlog' = Append(dlog, "decode_block")
    /\ LET r == decode_block(dpos) IN
         IF r.ok
           THEN /\ dout' = dout \o r.out
                /\ dpos' = dpos + r.used
                /\ dpc' = "marker"
           ELSE /\ dpc' = "err"
                /\ UNCHANGED <<dout, dpos>>
    /\ UNCHANGED <<din, marker, ctl, wrk, har, env>>

(***************************************************************************)
(* Callers: the output of a call is decoded, or the same input is encoded  *)
(* again with one worker.                                                  *)
(***************************************************************************)
NoWorkers(n) ==
    /\ pending = [w \in 1..n |-> FALSE]
    /\ work_chan = [w \in 1..n |-> <<>>]
    /\ busy = [w \in 1..n |-> <<>>]
    /\ result_chan = [w \in 1..n |-> <<>>]
    /\ wstate = [w \in 1..n |-> "running"]

\* The control thread and the workers at position p, nothing read or written.
EncodeState(input, n, p) ==
    /\ orig = input
    /\ read = input
    /\ num_threads = n
    /\ pc = p
    /\ idx = 1
    /\ round = 0
    /\ finalize = FALSE
    /\ total_crc = Zero32
    /\ sink = <<>>
    /\ events = <<>>
    /\ sent = <<>>
    /\ NoWorkers(n)

\* The state in which write_stream_data(input, _, n) has spawned its workers.
EncodeStart(input, n) == EncodeState(input, n, "header")

\* write_stream(BitReaderImpl::from_reader(output of the call), _).
FeedDecoder ==
    /\ pc = "done"
    /\ dpc = "idle"
    /\ run = 1
    /\ din' = sink
    /\ dpc' = "header"
    /\ UNCHANGED <<dpos, dout, marker, dlog, ctl, wrk, har, env>>

\* write_stream_data(the same input, _, 1).
Rerun ==
    /\ pc = "done"
    /\ dpc = "idle"
    /\ run = 1
    /\ run' = 2
    /\ first' = [sink |-> sink, crc |-> total_crc, threads |-> num_threads]
    /\ read' = orig
    /\ num_threads' = 1
    /\ pc' = "header"
    /\ idx' = 1
    /\ round' = 0
    /\ finalize' = FALSE
    /\ total_crc' = Zero32
    /\ sink' = <<>>
    /\ events' = <<>>
    /\ sent' = <<>>
    /\ pending' = <<FALSE>>
    /\ work_chan' = << <<>> >>
    /\ busy' = << <<>> >>
    /\ result_chan' = << <<>> >>
    /\ wstate' = <<"running">>
    /\ UNCHANGED <<orig, dec, rkind, nerr>>

(***************************************************************************)
(* The inputs explored.                                                    *)
(***************************************************************************)
\* Valid blocks a decoder input holds before its last item, at most.
MaxBlocks == 2

Alter(s, i) == [s EXCEPT ![i] = (s[i] + 1) % 256]

Headers ==
    { file_header, Signature \o <<49>>, Signature \o <<0>>,
      Alter(file_header, 1), Alter(file_header, 2), Alter(file_header, 3),
      <<66, 90, 104>>, <<>> }

DecBlocks == { BlockBits(<<0>>), BlockBits(<<0, 255>>) }

\* What follows the valid blocks: a stream end, nothing, or something invalid.
LastItems ==
    { stream_footer(Zero32), FooterMagic, <<>>, <<0, 1, 2, 3, 4, 5>>,
      SubSeq(BlockMagic, 1, 5), SubSeq(BlockMagic, 1, 3) \o SubSeq(FooterMagic, 4, 6),
      BlockMagic, Alter(BlockBits(<<0>>), 10), SubSeq(BlockBits(<<0, 255>>), 1, 12) }
      \cup { Alter(BlockMagic, i) : i \in 1..6 }
      \cup { Alter(FooterMagic, i) : i \in 1..6 }

Trailers == { <<>>, <<7>>, BlockBits(<<255>>) }

RECURSIVE Flatten(_)
Flatten(ss) == IF ss = <<>> THEN <<>> ELSE Head(ss) \o Flatten(Tail(ss))

DecInputs ==
    { h \o Flatten(bs) \o l \o t :
        h \in Headers, bs \in SeqsUpTo(DecBlocks, MaxBlocks), l \in LastItems, t \in Trailers }

\* A reader that never fails.
GoodReader ==
    /\ rkind = "good"
    /\ nerr = 0

DecoderIdle ==
    /\ dpc = "idle"
    /\ din = <<>>
    /\ dpos = 0
    /\ dout = <<>>
    /\ marker = "none"
    /\ dlog = <<>>

Init ==
    /\ run = 1
    /\ first = [sink |-> <<>>, crc |-> Zero32, threads |-> 0]
    /\ GoodReader
    /\ \/ /\ \E input \in SeqsUpTo(InputBytes, MaxLen) :
               \E n \in (1..MaxThreads) \cup TestedWorkerCounts : EncodeStart(input, n)
          /\ DecoderIdle
       \/ /\ EncodeState(<<>>, 0, "idle")
          /\ din \in DecInputs
          /\ dpc = "header"
          /\ dpos = 0
          /\ dout = <<>>
          /\ marker = "none"
          /\ dlog = <<>>

Worker == \E w \in Workers : WorkerRecv(w) \/ WorkerSend(w)

Next ==
    \/ Control
    \/ Worker
    \/ FeedDecoder
    \/ Rerun
    \/ ReadFileHeader
    \/ WhatNext
    \/ DecodeBlock

Spec == Init /\ [][Next]_vars

\* One call of write_stream_data, every thread that can run being scheduled
\* eventually.
EncodeInit ==
    /\ run = 1
    /\ first = [sink |-> <<>>, crc |-> Zero32, threads |-> 0]
    /\ GoodReader
    /\ \E input \in SeqsUpTo(InputBytes, MaxLen) :
         \E n \in (1..MaxThreads) \cup TestedWorkerCounts : EncodeStart(input, n)
    /\ DecoderIdle

EncodeNext == Control \/ Worker

FairSpec == EncodeInit /\ [][EncodeNext]_vars /\ WF_vars(Control) /\ WF_vars(Worker)

\* One call of write_stream on a finite input.  The decoder is sequential
\* code on one thread: its next call is always made.
DecodeInit ==
    /\ run = 1
    /\ first = [sink |-> <<>>, crc |-> Zero32, threads |-> 0]
    /\ GoodReader
    /\ EncodeState(<<>>, 0, "idle")
    /\ din \in DecInputs
    /\ dpc = "header"
    /\ dpos = 0
    /\ dout = <<>>
    /\ marker = "none"
    /\ dlog = <<>>

Decode == ReadFileHeader \/ WhatNext \/ DecodeBlock

DecodeSpec == DecodeInit /\ [][Decode]_vars /\ WF_vars(Decode)

\* One input of each length, its chunks differing from their neighbours.
PatternInputs == {[i \in 1..k |-> IF i % 3 = 0 THEN 255 ELSE 0] : k \in 0..MaxLen}

\* One call of write_stream_data on a reader whose reads can fail: some
\* reads fail ("transient"), or every read from the first failure on
\* ("broken").
IoInit ==
    /\ run = 1
    /\ first = [sink |-> <<>>, crc |-> Zero32, threads |-> 0]
    /\ rkind \in {"transient", "broken"}
    /\ nerr = 0
    /\ \E input \in PatternInputs :
         \E n \in 1..MaxThreads : EncodeStart(input, n)
    /\ DecoderIdle

ControlIo == Control \/ ScatterReadError

IoNext == ControlIo \/ Worker

IoSpec == IoInit /\ [][IoNext]_vars /\ WF_vars(ControlIo) /\ WF_vars(Worker)

\* One call of write_stream_data whose worker threads can panic.  A panic
\* can happen but need not: only the steps of running threads are fair.
PatternInit ==
    /\ run = 1
    /\ first = [sink |-> <<>>, crc |-> Zero32, threads |-> 0]
    /\ GoodReader
    /\ \E input \in PatternInputs :
         \E n \in 1..MaxThreads : EncodeStart(input, n)
    /\ DecoderIdle

ControlCrash == Control \/ GatherRecvFails

Crash == \E w \in Workers : WorkerCrash(w)

CrashNext == ControlCrash \/ Worker \/ Crash

CrashSpec ==
    PatternInit /\ [][CrashNext]_vars /\ WF_vars(ControlCrash) /\ WF_vars(Worker)

\* One call of write_stream_data with any number of workers, none included.
AnyCountInit ==
    /\ run = 1
    /\ first = [sink |-> <<>>, crc |-> Zero32, threads |-> 0]
    /\ GoodReader
    /\ \E input \in PatternInputs :
         \E n \in 0..MaxThreads : EncodeStart(input, n)
    /\ DecoderIdle

AnyCountSpec ==
    AnyCountInit /\ [][EncodeNext]_vars /\ WF_vars(Control) /\ WF_vars(Worker)

\* One call of write_stream_data and the life of its worker threads up to
\* their end.
Exit == \E w \in Workers : WorkerExit(w)

TeardownNext == Control \/ Worker \/ Exit

TeardownSpec ==
    /\ PatternInit
    /\ [][TeardownNext]_vars
    /\ WF_vars(Control) /\ WF_vars(Worker) /\ WF_vars(Exit)

(***************************************************************************)
(* Properties.                                                             *)
(***************************************************************************)
\* The chunks of an input, cut front to back.
RECURSIVE Chunks(_)
Chunks(s) ==
    IF s = <<>> THEN <<>>
    ELSE LET n == Min(BLOCK_SIZE, Len(s)) IN
         <<SubSeq(s, 1, n)>> \o Chunks(SubSeq(s, n + 1, Len(s)))

IsBlock(e) == e.kind = "block"
\* The block writes of the call so far, in the order they were made.
BlocksWritten == SelectSeq(events, IsBlock)
SentWorks == [i \in 1..Len(sent) |-> sent[i].work]
Bits(es) == [i \in 1..Len(es) |-> es[i].bits]
Kinds == [i \in 1..Len(events) |-> events[i].kind]

\* C1: when write_stream_data returns, the blocks written are the compressed
\* chunks of the input in input order: as many blocks as non-empty chunks were
\* read, the i-th block being generate_block_data of the i-th chunk, and the
\* output holds them in that order between the header and the footer.
C1_BlocksInInputOrder ==
    pc = "done" =>
        /\ SentWorks = Chunks(orig)
        /\ Len(BlocksWritten) = Len(sent)
        /\ \A i \in 1..Len(BlocksWritten) :
             /\ BlocksWritten[i].bits = generate_block_data(Chunks(orig)[i]).bits
             /\ BlocksWritten[i].crc = generate_block_data(Chunks(orig)[i]).crc
        /\ sink = file_header \o Flatten(Bits(BlocksWritten)) \o stream_footer(total_crc)

\* Two workers have returned three different blocks over two rounds.
C1_Witness ==
    /\ pc = "done"
    /\ num_threads = 2
    /\ Len(BlocksWritten) = 3
    /\ BlocksWritten[1].bits # BlocksWritten[2].bits
    /\ BlocksWritten[2].bits # BlocksWritten[3].bits

\* rotate_left_32(x, 1): every bit moves up one place, bit 31 to bit 0.
RotateLeft1(x) == Tail(x) \o <<Head(x)>>
RECURSIVE FoldChecksums(_, _)
FoldChecksums(acc, cs) ==
    IF cs = <<>> THEN acc
    ELSE FoldChecksums(BitXor(Head(cs), RotateLeft1(acc)), Tail(cs))
WrittenCrcs == [i \in 1..Len(BlocksWritten) |-> BlocksWritten[i].crc]

\* C2: the running checksum is the left fold of c XOR rotate_left_32(acc, 1)
\* from 0 over the checksums of the blocks written so far, in the order they
\* were written, and the footer carries that fold over all the blocks.
C2_FooterChecksumIsFold ==
    /\ total_crc = FoldChecksums(Zero32, WrittenCrcs)
    /\ \A i \in 1..Len(events) :
         events[i].kind = "footer" =>
            /\ events[i].crc = FoldChecksums(Zero32, WrittenCrcs)
            /\ events[i].bits = stream_footer(FoldChecksums(Zero32, WrittenCrcs))

\* A footer over three blocks, where the fold had bit 31 set before a rotate.
C2_Witness ==
    /\ pc = "done"
    /\ Len(WrittenCrcs) = 3
    /\ \E k \in 1..2 : FoldChecksums(Zero32, SubSeq(WrittenCrcs, 1, k))[1] = 1
    /\ total_crc # Zero32

\* C3: decoding what write_stream_data wrote for an input returns Ok and
\* writes exactly that input, for every worker count explored (1, 2, 4 and 8
\* among them) and for the empty input.
C3_RoundTrip ==
    (pc = "done" /\ dpc # "idle") =>
        /\ dpc # "err"
        /\ dpc = "ok" => (dout = orig /\ dlog[Len(dlog)] = "what_next")
        /\ Len(dout) <= Len(orig) /\ dout = SubSeq(orig, 1, Len(dout))

\* The output of four workers for a three-chunk input has been decoded.
C3_Witness ==
    /\ pc = "done"
    /\ dpc = "ok"
    /\ num_threads = 4
    /\ Len(orig) >= 5
    /\ dout = orig

\* C4: the call with one worker writes the same bytes, and ends with the same
\* combined checksum, as the call with k workers on the same input.
C4_SameAsOneWorker ==
    (run = 2 /\ pc = "done") =>
        /\ num_threads = 1
        /\ sink = first.sink
        /\ total_crc = first.crc

\* Both calls have returned; the first had several workers and a second round.
C4_Witness ==
    /\ run = 2
    /\ pc = "done"
    /\ first.threads = 2
    /\ Len(sent) = 3
    /\ sent[1].work # sent[2].work

\* The blocks a worker holds: in its work channel, in its thread, or in its
\* result channel.
Outstanding(w) == Len(work_chan[w]) + Len(busy[w]) + Len(result_chan[w])
\* The step is a send_work call on worker w.
SendsTo(w) == Len(sent') = Len(sent) + 1 /\ sent'[Len(sent')].worker = w
\* The step is a flush_work_buffer call on worker w that received its result.
FlushOf(w) ==
    /\ result_chan[w] # <<>>
    /\ result_chan'[w] = Tail(result_chan[w])
    /\ events' = Append(events, [kind |-> "block", bits |-> Head(result_chan[w]).bits,
                                 crc |-> Head(result_chan[w]).crc])

C5_AtMostOne == \A w \in Workers : Outstanding(w) <= 1 /\ (~pending[w] => Outstanding(w) = 0)
C5_Step ==
    run' = run =>
        \A w \in Workers :
            /\ SendsTo(w) => (~pending[w] /\ pending'[w])
            /\ (~pending[w] /\ pending'[w]) => SendsTo(w)
            /\ (pending[w] /\ ~pending'[w]) => FlushOf(w)

\* C5: a worker never holds more than one block; send_work is never called on
\* a pending worker; only send_work sets pending and only a flush_work_buffer
\* that received the worker's result clears it.
C5_OneOutstandingBlock == [](C5_AtMostOne) /\ [][C5_Step]_vars

\* A worker has been sent its second block, its first having been flushed.
C5_Witness ==
    /\ Len(sent) >= 3
    /\ sent[1].worker = 1
    /\ sent[Len(sent)].worker = 1
    /\ pending[1]
    /\ Len(BlocksWritten) = 2

LastKind == IF events = <<>> THEN "none" ELSE events[Len(events)].kind
\* C6: the header is the first write and the only header; blocks are written
\* between the header and the footer; the footer is written once, when no
\* worker holds a block and every block sent has been written; finalize is
\* called once, right after the footer, and is the last call on the writer;
\* the output is what these calls wrote; a call that returned made them all.
C6_OutputEventOrder ==
    /\ \A i \in 1..Len(events) :
         /\ (Kinds[i] = "header") <=> (i = 1)
         /\ Kinds[i] = "block" => \A j \in 1..i : Kinds[j] # "footer"
         /\ Kinds[i] = "footer" => (\A j \in 1..Len(events) : j # i => Kinds[j] # "footer")
         /\ Kinds[i] = "finalize" => (i = Len(events) /\ i > 1 /\ Kinds[i - 1] = "footer")
    /\ LastKind \in {"footer", "finalize"} =>
         /\ Len(BlocksWritten) = Len(sent)
         /\ \A w \in Workers : ~pending[w] /\ Outstanding(w) = 0
         /\ finalize
    /\ sink = Flatten(Bits(events))
    /\ pc = "done" <=> LastKind = "finalize"

\* A call over two rounds has returned: header, three blocks, footer, finalize.
C6_Witness ==
    /\ pc = "done"
    /\ num_threads = 2
    /\ Kinds = <<"header", "block", "block", "block", "footer", "finalize">>

\* C7: every block sent has 1..BLOCK_SIZE bytes and every block but the last
\* has BLOCK_SIZE; when the call returns, ceil(L / BLOCK_SIZE) blocks were
\* sent for an input of L bytes: none for L = 0, one for L = BLOCK_SIZE, two
\* for L = BLOCK_SIZE + 1, the second of one byte.
C7_Chunking ==
    /\ \A i \in 1..Len(sent) :
         /\ Len(sent[i].work) \in 1..BLOCK_SIZE
         /\ i < Len(sent) => Len(sent[i].work) = BLOCK_SIZE
    /\ Flatten(SentWorks) \o read = orig
    /\ pc = "done" =>
         /\ Len(sent) = (Len(orig) + BLOCK_SIZE - 1) \div BLOCK_SIZE
         /\ Len(orig) = 0 => Len(sent) = 0
         /\ Len(orig) = BLOCK_SIZE => Len(sent) = 1
         /\ Len(orig) = BLOCK_SIZE + 1 => (Len(sent) = 2 /\ Len(sent[2].work) = 1)

\* An input of BLOCK_SIZE + 1 bytes has been encoded.
C7_Witness ==
    /\ pc = "done"
    /\ Len(orig) = BLOCK_SIZE + 1
    /\ Len(sent) = 2
    /\ Len(sent[1].work) = BLOCK_SIZE
    /\ Len(sent[2].work) = 1

\* The step is a call of what_next.
WhatNextCall == dlog' = Append(dlog, "what_next")
C8_Step ==
    WhatNextCall =>
        IF dpos + 6 <= Len(din)
          THEN LET six == SubSeq(din, dpos + 1, dpos + 6) IN
               /\ dpos' = dpos + 6
               /\ (marker' = "BlockHeader") <=> (six = BlockMagic)
               /\ (marker' = "StreamFooter") <=> (six = FooterMagic)
               /\ (marker' = "Err") <=> (six # BlockMagic /\ six # FooterMagic)
               /\ marker' \in {"BlockHeader", "StreamFooter", "Err"}
          ELSE marker' = "Err"

\* C8: what_next reads exactly 6 bytes and answers BlockHeader exactly for
\* 31 41 59 26 53 59, StreamFooter exactly for 17 72 45 38 50 90 and an error
\* for any other 6 bytes, whatever follows them in the stream.
C8_MarkerDispatch == [][C8_Step]_vars

\* what_next has refused 6 bytes that differ from the block-start magic in
\* the last byte only, with more bytes behind them.
C8_Witness ==
    /\ dlog # <<>>
    /\ dlog[Len(dlog)] = "what_next"
    /\ marker = "Err"
    /\ dpos >= 10
    /\ dpos < Len(din)
    /\ SubSeq(din, dpos - 5, dpos - 1) = SubSeq(BlockMagic, 1, 5)
    /\ din[dpos] # BlockMagic[6]

HeaderAccepted == ~(dpc = "err" /\ Len(dlog) = 1)
\* C9: the decoder's first call reads the 4 header bytes; it goes on exactly
\* if the first three are 'B', 'Z', 'h', whatever the fourth; if they are not
\* (or are not all there) write_stream fails having read no marker, called no
\* decode_block and written nothing.
C9_HeaderValidation ==
    dlog # <<>> =>
        /\ dlog[1] = "read_file_header"
        /\ Len(din) >= 4 =>
             /\ dpos >= 4
             /\ HeaderAccepted <=> (din[1] = 66 /\ din[2] = 90 /\ din[3] = 104)
        /\ ~HeaderAccepted =>
             /\ dpos = Min(4, Len(din))
             /\ marker = "none"
             /\ dout = <<>>
             /\ \A i \in 1..Len(dlog) : dlog[i] \notin {"what_next", "decode_block"}
        /\ Len(din) < 4 => ~HeaderAccepted

\* A header with another version byte than '9' has been accepted and a
\* block behind it decoded.
C9_WitnessAccepted ==
    /\ Len(din) >= 4
    /\ SubSeq(din, 1, 3) = Signature
    /\ din[4] # 57
    /\ dout # <<>>
    /\ dlog[1] = "read_file_header"

\* A header whose third byte is wrong has been refused, a valid block behind it.
C9_Witness ==
    /\ dpc = "err"
    /\ Len(din) >= 10
    /\ din[1] = 66 /\ din[2] = 90 /\ din[3] # 104
    /\ SubSeq(din, 5, 10) = BlockMagic
    /\ dpos = 4

Encoding == pc \notin {"idle", "done"}
\* The control thread waits in recv() for the worker the gather loop is at.
Waiting == pc = "gather" /\ idx <= num_threads /\ pending[GatherWorker(idx)]
C10_NoSendOnceFinished == (finalize /\ run' = run) => sent' = sent
C10_WaitsForABlock == Waiting => Outstanding(GatherWorker(idx)) = 1
FooterWritten == \E i \in 1..Len(events) : events[i].kind = "footer"

\* C10: under fair scheduling every call of write_stream_data writes the
\* footer and returns; the control thread only waits for a worker that holds
\* a block; once finalize is set no block is sent.
C10_EncodeTerminates ==
    /\ Encoding ~> (pc = "done" /\ FooterWritten)
    /\ [](C10_WaitsForABlock)
    /\ [][C10_NoSendOnceFinished]_vars

\* A call of two workers that needed a second round has returned.
C10_Witness ==
    /\ pc = "done"
    /\ round = 2
    /\ Len(sent) = 3
    /\ num_threads = 2
    /\ finalize
    /\ FooterWritten

(***************************************************************************)
(* C11: decode errors are terminal.  A call of read_file_header, what_next *)
(* or decode_block that returns an error ends write_stream with the error, *)
(* and after the error no byte is read, nothing is written and no function *)
(* of the decoder is called again: no retry, no skip to a later block.     *)
(***************************************************************************)
DecoderCalls == dlog' # dlog

\* The call that is about to be made returns an error.
CallFails ==
    CASE dpc = "header" -> ~(CanRead(4) /\ read_file_header(Peek(4)))
      [] dpc = "marker" -> ~(CanRead(6) /\ what_next(Peek(6)) # "Err")
      [] dpc = "block" -> ~decode_block(dpos).ok
      [] OTHER -> FALSE

C11_Step ==
    /\ (DecoderCalls /\ CallFails) => (dpc' = "err" /\ dout' = dout)
    /\ dpc = "err" => UNCHANGED dec
    /\ dpc' = "err" => (DecoderCalls /\ CallFails /\ dpos' <= Len(din))

\* C11: every failing decoder call ends the call with the error, and the
\* decoder state never changes after the error.
C11_DecodeErrorsTerminal == [][C11_Step]_vars

\* decode_block has refused a block and a well-formed block lies unread
\* behind it.
C11_Witness ==
    /\ dpc = "err"
    /\ dlog # <<>>
    /\ dlog[Len(dlog)] = "decode_block"
    /\ Len(din) >= dpos + Len(BlockBits(<<255>>))
    /\ SubSeq(din, Len(din) - Len(BlockBits(<<255>>)) + 1, Len(din))
         = BlockBits(<<255>>)

(***************************************************************************)
(* C12: the stream-end magic at a marker position ends the call with Ok,   *)
(* and the position stays right behind the magic: what follows it is not   *)
(* read and has no influence on the result.                                *)
(***************************************************************************)
AtStreamEnd ==
    /\ dpc = "marker"
    /\ CanRead(6)
    /\ Peek(6) = FooterMagic

C12_Step ==
    /\ (DecoderCalls /\ AtStreamEnd)
         => (dpc' = "ok" /\ dpos' = dpos + 6 /\ dout' = dout)
    /\ dpc = "ok" => UNCHANGED dec
    /\ dpc' = "ok"
         => /\ DecoderCalls /\ AtStreamEnd
            /\ SubSeq(din, dpos' - 5, dpos') = FooterMagic

\* C12: reading the stream-end magic returns Ok with the position right
\* behind the magic, and nothing is read afterwards.
C12_StreamEndStops == [][C12_Step]_vars

\* Ok was returned and more than a four-byte checksum lies unread behind
\* the stream-end magic.
C12_Witness ==
    /\ dpc = "ok"
    /\ Len(din) > dpos + 4
    /\ dout # <<>>

(***************************************************************************)
(* C13: the round barrier.  The scatter of a round starts with no worker   *)
(* pending and with every block sent so far written; while it runs, only   *)
(* the workers it has already visited are pending and every block of an    *)
(* earlier round is written; so at most num_threads blocks are in flight.  *)
(***************************************************************************)
InFlight == Len(sent) - Len(BlocksWritten)

C13_ScatterStart ==
    (pc = "scatter" /\ idx = 1)
        => /\ \A w \in Workers : ~pending[w] /\ Outstanding(w) = 0
           /\ InFlight = 0

C13_DuringScatter ==
    pc = "scatter"
        => /\ \A w \in Workers : pending[w] => w < idx
           /\ \A i \in 1..Len(sent) :
                 sent[i].round < round => i <= Len(BlocksWritten)

\* C13: no scatter starts while a worker is pending, blocks of earlier
\* rounds are written before a round sends, and the blocks in flight never
\* exceed the number of workers.
C13_RoundBarrier ==
    /\ C13_ScatterStart
    /\ C13_DuringScatter
    /\ InFlight <= num_threads

\* The second round is about to scatter after a first round that used
\* both workers.
C13_Witness ==
    /\ pc = "scatter"
    /\ idx = 1
    /\ round = 2
    /\ num_threads = 2
    /\ Len(sent) = 2
    /\ read # <<>>

(***************************************************************************)
(* C14: round-robin assignment.  Counting from 0, block n of the input is  *)
(* sent in round n div num_threads to worker n mod num_threads (rounds and *)
(* workers are numbered from 1 here), so an input of at most num_threads   *)
(* blocks is sent in the first round, one block per worker.                *)
(***************************************************************************)
C14_Assignment ==
    \A i \in 1..Len(sent) :
        /\ sent[i].work = Chunks(orig)[i]
        /\ sent[i].worker = ((i - 1) % num_threads) + 1
        /\ sent[i].round = ((i - 1) \div num_threads) + 1

C14_OneRound ==
    (pc = "done" /\ Len(Chunks(orig)) <= num_threads)
        => /\ Len(sent) = Len(Chunks(orig))
           /\ \A i \in 1..Len(sent) : sent[i].round = 1 /\ sent[i].worker = i

\* C14: the n-th block goes to worker n mod num_threads in round
\* n div num_threads; at most num_threads blocks take one round.
C14_RoundRobin == C14_Assignment /\ C14_OneRound

\* Three blocks, the last one short, were sent to three workers in one round.
C14_Witness ==
    /\ pc = "done"
    /\ run = 1
    /\ num_threads = 3
    /\ Len(sent) = 3
    /\ Len(orig) = 2 * BLOCK_SIZE + 1
    /\ \A i \in 1..3 : sent[i].worker = i /\ sent[i].round = 1

(***************************************************************************)
(* C19: the pending flag of a worker agrees with its channels.  A pending  *)
(* worker holds exactly one block: in its work channel, in the thread, or  *)
(* as a result in its result channel; a worker that is not pending holds   *)
(* nothing.  What it holds is the last block sent to it, so the results of *)
(* a worker come back in the order of the sends.                           *)
(***************************************************************************)
\* The positions in `sent` of the blocks sent to worker w.
SentTo(w) == {i \in 1..Len(sent) : sent[i].worker = w}

LastSentTo(w) == sent[CHOOSE i \in SentTo(w) : \A j \in SentTo(w) : j <= i].work

C19_FlagAgrees ==
    \A w \in Workers :
        /\ Len(work_chan[w]) <= 1
        /\ Len(result_chan[w]) <= 1
        /\ pending[w] <=> Outstanding(w) = 1
        /\ ~pending[w] <=> Outstanding(w) = 0

C19_HoldsLastSent ==
    \A w \in Workers :
        /\ work_chan[w] # <<>> => work_chan[w] = <<LastSentTo(w)>>
        /\ busy[w] # <<>> => busy[w] = <<LastSentTo(w)>>
        /\ result_chan[w] # <<>>
             => result_chan[w] = <<generate_block_data(LastSentTo(w))>>

\* The i-th block written is the result for the i-th block sent.
C19_ResultsInSendOrder ==
    /\ Len(BlocksWritten) <= Len(sent)
    /\ \A i \in 1..Len(BlocksWritten) :
         /\ BlocksWritten[i].bits = generate_block_data(sent[i].work).bits
         /\ BlocksWritten[i].crc = generate_block_data(sent[i].work).crc

\* C19: pending[w] holds exactly when worker w holds one block, no channel
\* holds more than one message, and results come back in send order.
C19_PendingAgreesWithChannels ==
    /\ C19_FlagAgrees
    /\ C19_HoldsLastSent
    /\ C19_ResultsInSendOrder

\* Worker 1 was sent b1 and then a different b2: the result for b1 is
\* written and the result for b2 waits in its result channel.
C19_Witness ==
    /\ num_threads >= 1
    /\ pending[1]
    /\ result_chan[1] # <<>>
    /\ Len(sent) >= 2
    /\ sent[1].worker = 1
    /\ sent[Len(sent)].worker = 1
    /\ sent[1].work # sent[Len(sent)].work
    /\ Len(BlocksWritten) = Len(sent) - 1
    /\ BlocksWritten[1].bits = generate_block_data(sent[1].work).bits
    /\ result_chan[1] = <<generate_block_data(sent[Len(sent)].work)>>

(***************************************************************************)
(* C20: the decoder's state machine.  read_file_header is the first call   *)
(* and is made once; then what_next and decode_block alternate, a          *)
(* decode_block following each block-start marker and nothing else; Ok is  *)
(* returned only behind a stream-end marker read at a marker position; and *)
(* on every finite input the call returns.                                 *)
(***************************************************************************)
C20_Transitions ==
    CASE dpc = "header" -> dpc' \in {"marker", "err"}
      [] dpc = "marker" -> dpc' \in {"block", "ok", "err"}
      [] dpc = "block" -> dpc' \in {"marker", "err"}
      [] dpc \in {"ok", "err"} -> UNCHANGED dec
      [] OTHER -> TRUE

C20_CallOrder ==
    /\ dlog = <<>> <=> dpc \in {"idle", "header"}
    /\ \A i \in 1..Len(dlog) :
         /\ dlog[i] = "read_file_header" <=> i = 1
         /\ dlog[i] = "decode_block" => dlog[i - 1] = "what_next"
         /\ (dlog[i] = "what_next" /\ i > 2) => dlog[i - 1] = "decode_block"
    /\ dpc = "block"
         <=> (dlog # <<>> /\ dlog[Len(dlog)] = "what_next" /\ marker = "BlockHeader")
    /\ dpc = "marker"
         => dlog[Len(dlog)] \in {"read_file_header", "decode_block"}

C20_OkOnlyAtStreamEnd ==
    dpc = "ok"
        => /\ marker = "StreamFooter"
           /\ dlog[Len(dlog)] = "what_next"
           /\ dpos >= 10
           /\ SubSeq(din, dpos - 5, dpos) = FooterMagic

Decoding == dpc \in {"header", "marker", "block"}
Returned == dpc \in {"ok", "err"}

\* C20: the decoder makes only the transitions header -> marker ->
\* (block -> marker | ok), any of them possibly to err; its calls come in
\* that order; Ok needs a stream-end marker; and every call returns.
C20_DecoderStateMachine ==
    /\ [](C20_CallOrder /\ C20_OkOnlyAtStreamEnd)
    /\ [][C20_Transitions]_vars
    /\ (Decoding ~> Returned)

\* The input ended at a marker position after a block was decoded: the call
\* returned the error.
C20_Witness ==
    /\ dpc = "err"
    /\ dout # <<>>
    /\ dpos = Len(din)
    /\ Len(dlog) >= 4
    /\ dlog[Len(dlog)] = "what_next"
    /\ dlog[Len(dlog) - 1] = "decode_block"

(***************************************************************************)
(* C15: a read error during scatter.  The failing read ends the scatter of *)
(* the round without a send and without setting finalize; the gather of    *)
(* the round writes the blocks the round has sent, in order, and another   *)
(* round starts.  With a reader that fails on every read from then on the  *)
(* rounds go on forever and the footer is never written.                   *)
(***************************************************************************)
ReadFails == nerr' > nerr

C15_Step ==
    ReadFails
        => /\ pc = "scatter" /\ pc' = "gather"
           /\ ~finalize'
           /\ sent' = sent
           /\ pending' = pending
           /\ events' = events

\* Between rounds everything sent has been written, in the order sent.
C15_RoundWritten ==
    pc = "loop" => (InFlight = 0 /\ C19_ResultsInSendOrder)

ReaderBroken == rkind = "broken" /\ nerr > 0

C15_NoFooterOnceBroken ==
    ReaderBroken
        => /\ ~finalize
           /\ pc \in {"loop", "scatter", "gather"}
           /\ \A i \in 1..Len(events) : events[i].kind # "footer"

\* C15: a failing read sends nothing and leaves finalize alone, the round's
\* blocks are written and a new round starts; with a reader that keeps
\* failing the loop never ends and the footer is never written.
C15_ReadError ==
    /\ [][C15_Step]_vars
    /\ [](C15_RoundWritten /\ C15_NoFooterOnceBroken)
    /\ ((pc = "gather" /\ ~finalize) ~> (pc = "scatter" /\ idx = 1 /\ InFlight = 0))
    /\ ((ReaderBroken /\ pc = "scatter") ~> (pc = "gather"))
    /\ ((ReaderBroken /\ pc = "gather") ~> (pc = "scatter"))

\* The reader failed in the middle of the first round, after a block had
\* been sent, and has failed again in a later round: the block is written,
\* input is left unread and the call is still scattering.
C15_Witness ==
    /\ ReaderBroken
    /\ nerr = MaxReadErrors
    /\ num_threads >= 2
    /\ round >= 3
    /\ pc = "scatter"
    /\ Len(sent) = 1
    /\ Len(BlocksWritten) = 1
    /\ read # <<>>

(***************************************************************************)
(* C16: a worker thread that terminates with a block it has not delivered  *)
(* is fatal.  The calling thread panics when it receives from that worker  *)
(* (it never gets to send to it first); it does not wait forever or try    *)
(* again; after the panic nothing is written, and from the loss of the     *)
(* block on no footer is written.                                          *)
(***************************************************************************)
\* Worker w has terminated with a block that the call still waits for.
LostBlock(w) == wstate[w] = "crashed" /\ pending[w] /\ Outstanding(w) = 0

SomeLostBlock == \E w \in Workers : LostBlock(w)

C16_NoFooterAfterLoss ==
    (\E w \in Workers : wstate[w] = "crashed")
        => /\ pc \in {"scatter", "gather", "panic"}
           /\ \A i \in 1..Len(events) : events[i].kind # "footer"

\* The scatter never reaches a worker whose thread is gone.
C16_NoSendToCrashed ==
    pc = "scatter" => \A w \in Workers : wstate[w] = "crashed" => w < idx

C16_Step ==
    /\ pc = "panic" => UNCHANGED ctl
    /\ (pc # "panic" /\ pc' = "panic")
         => /\ pc = "gather"
            /\ LostBlock(GatherWorker(idx))
            /\ UNCHANGED <<sink, events, sent, pending>>
    /\ \A w \in Workers : (LostBlock(w) /\ pc # "panic") => pending'[w]

\* C16: the loss of a block in a worker leads to the panic of the call, at
\* the receive from that worker; nothing is written after the panic and no
\* footer after the loss.
C16_CrashIsFatal ==
    /\ [](C16_NoFooterAfterLoss /\ C16_NoSendToCrashed)
    /\ [][C16_Step]_vars
    /\ (SomeLostBlock ~> (pc = "panic"))

\* The second of two workers lost its block: the call panicked after
\* writing the first worker's block, with input left unread.
C16_Witness ==
    /\ pc = "panic"
    /\ num_threads = 2
    /\ wstate[2] = "crashed"
    /\ wstate[1] = "running"
    /\ Len(sent) = 2
    /\ Len(BlocksWritten) = 1
    /\ read # <<>>

(***************************************************************************)
(* C17: teardown.  When write_stream_data returns, no worker is pending,   *)
(* no channel holds a message and every block sent is written; a worker    *)
(* thread ends only when its work channel is closed, which the return of   *)
(* the call does; and after the return every worker thread ends.           *)
(***************************************************************************)
C17_Drained ==
    pc = "done"
        => /\ \A w \in Workers : ~pending[w] /\ Outstanding(w) = 0
           /\ InFlight = 0
           /\ C19_ResultsInSendOrder

C17_ExitOnlyAfterReturn ==
    \A w \in Workers : wstate[w] = "exited" => pc = "done"

AllExited == \A w \in Workers : wstate[w] = "exited"

\* C17: the call returns with everything drained, worker threads end only
\* after the return, and after the return all of them end.
C17_Teardown ==
    /\ [](C17_Drained /\ C17_ExitOnlyAfterReturn)
    /\ ((pc = "done") ~> AllExited)

\* The call has returned after two rounds and both worker threads have
\* ended.
C17_Witness ==
    /\ pc = "done"
    /\ num_threads = 2
    /\ Len(sent) = 3
    /\ Len(BlocksWritten) = 3
    /\ AllExited

(***************************************************************************)
(* C18: with num_threads = 0 the call never returns.  Both for loops have  *)
(* no iteration, so nothing is read, finalize stays false, the loop goes   *)
(* round after round, and the header is all that is ever written.          *)
(***************************************************************************)
C18_NothingHappens ==
    num_threads = 0
        => /\ read = orig
           /\ ~finalize
           /\ sent = <<>>
           /\ pc \in {"header", "loop", "scatter", "gather"}
           /\ sink = (IF pc = "header" THEN <<>> ELSE file_header)
           /\ \A i \in 1..Len(events) : events[i].kind = "header"

\* C18: without workers the input is never read, finalize is never set, no
\* footer is written and the rounds never end.
C18_ZeroWorkersNeverEnds ==
    /\ []C18_NothingHappens
    /\ ((num_threads = 0 /\ pc # "scatter") ~> (pc = "scatter"))
    /\ ((num_threads = 0 /\ pc # "gather") ~> (pc = "gather"))

\* Without workers the call is in its third round or later, the input
\* unread and only the header written.
C18_Witness ==
    /\ num_threads = 0
    /\ round >= 3
    /\ pc = "gather"
    /\ orig # <<>>
    /\ read = orig
    /\ sink = file_header

=============================================================================
